---- MODULE Spec2Model ----
(***************************************************************************)
(* Model of src/prefect/logging/configuration.py: load_logging_config      *)
(* (environment overrides and settings interpolation over the flattened    *)
(* configuration) and setup_logging (the once-per-process guard around     *)
(* logging.config.dictConfig and the extra-logger copy).                   *)
(*                                                                         *)
(* Strings are sequences of one-character strings, so that the regular     *)
(* expressions of the module are computed rather than assumed.  "LF"       *)
(* stands for the newline character.                                       *)
(***************************************************************************)
EXTENDS Integers, Sequences, FiniteSets, TLC

VARIABLES
    fs,                      \* the two files setup_logging may read
    environ,                 \* os.environ
    settings,                \* the LoggingSettings argument of the last call
    PROCESS_LOGGING_CONFIG,  \* the module global
    registry,                \* the logging module's loggers
    ret,                     \* outcome of the last call
    hist,                    \* history: calls made, dictConfig calls, snapshots
    pc,                      \* per thread: position inside setup_logging
    local                    \* per thread: the local variable config

vars == <<fs, environ, settings, PROCESS_LOGGING_CONFIG, registry, ret, hist, pc, local>>

(***************************************************************************)
(* Bounds.                                                                 *)
(***************************************************************************)
MaxLeaves == 2      \* leaves of a configuration file
MaxEnv == 1         \* environment variables set at once
MaxSetupLeaves == 1 \* leaves of a file read by setup_logging
MaxCalls == 2       \* sequential setup_logging calls
MaxHandlers == 2    \* handlers dictConfig puts on 'prefect.extra'

(***************************************************************************)
(* Python values.  Every value is a record [t, s]: a str carries its       *)
(* characters, an int its digits, None nothing.                            *)
(***************************************************************************)
Str(s) == [t |-> "str", s |-> s]

IntOne == [t |-> "int", s |-> <<"1">>]

None == [t |-> "none", s |-> << >>]

IsStr(v) == v.t = "str"

\* bool(v) of a str or None: the empty string and None are falsy
Truthy(v) == v.t # "none" /\ ~(v.t = "str" /\ v.s = << >>)

Lower == {"a", "h", "l", "m", "p", "v", "x", "y"}

Digits == {"1"}

UpperOf == [c \in Lower |->
              CASE c = "a" -> "A" [] c = "h" -> "H" [] c = "l" -> "L"
                [] c = "m" -> "M" [] c = "p" -> "P" [] c = "v" -> "V"
                [] c = "x" -> "X" [] c = "y" -> "Y"]

Uppers == {UpperOf[c] : c \in Lower}

\* [0-9a-zA-Z]
IsAlnum(c) == c \in Lower \cup Uppers \cup Digits

\* [\w\d_]
IsWord(c) == IsAlnum(c) \/ c = "_"

\* str.upper()
Upper(s) == [i \in 1..Len(s) |-> IF s[i] \in Lower THEN UpperOf[s[i]] ELSE s[i]]

\* "_".join(key_tup)
RECURSIVE Join(_)
Join(key_tup) ==
    IF Len(key_tup) = 0 THEN << >>
    ELSE IF Len(key_tup) = 1 THEN key_tup[1]
    ELSE key_tup[1] \o <<"_">> \o Join(Tail(key_tup))

\* re.sub(r"[^0-9a-zA-Z]+", "_", s): every maximal run of other characters
\* becomes one underscore
RECURSIVE to_envvar(_)
to_envvar(s) ==
    IF Len(s) = 0 THEN << >>
    ELSE IF IsAlnum(s[1]) THEN <<s[1]>> \o to_envvar(Tail(s))
    ELSE IF Len(s) > 1 /\ ~IsAlnum(s[2]) THEN to_envvar(Tail(s))
    ELSE <<"_">> \o to_envvar(Tail(s))

StartsWith(s, p) == Len(s) >= Len(p) /\ SubSeq(s, 1, Len(p)) = p

\* Python's '$' matches at the end of the string and also just before a
\* newline that ends the string: the text the pattern must cover
Covered(s) ==
    IF Len(s) > 0 /\ s[Len(s)] = "LF" THEN {s, SubSeq(s, 1, Len(s) - 1)} ELSE {s}

FullForm(t) ==
    /\ Len(t) >= 5
    /\ SubSeq(t, 1, 2) = <<"{", "{">>
    /\ SubSeq(t, Len(t) - 1, Len(t)) = <<"}", "}">>
    /\ \A i \in 3..(Len(t) - 2) : IsWord(t[i])

\* interpolated_settings.match(val) is not None
interpolated_settings(s) == \E t \in Covered(s) : FullForm(t)

\* matched_settings.group(1)
MatchedKey(s) ==
    LET t == CHOOSE u \in Covered(s) : FullForm(u) IN SubSeq(t, 3, Len(t) - 2)

\* getattr(settings, matched_key, None)
GetAttr(st, key) == IF key \in DOMAIN st.attrs THEN st.attrs[key] ELSE None

\* the name looked up in os.environ for one leaf
EnvVarName(st, key_tup) == to_envvar(Upper(st.env_prefix \o Join(key_tup)))

\* os.environ.get(name)
EnvGet(env, name) == IF name \in DOMAIN env THEN Str(env[name]) ELSE None

\* mutant: "if env_val is not None", an empty variable overrides too
EnvOverride_NotNone(val, env_val) == IF env_val.t # "none" THEN env_val ELSE val

\* if env_val: val = env_val
EnvOverride(val, env_val) == IF Truthy(env_val) THEN env_val ELSE val

\* the settings-reference step, applied to whatever val now holds
Interpolate(st, val) ==
    IF IsStr(val) /\ StartsWith(val.s, <<"{", "{">>)
    THEN IF interpolated_settings(val.s) THEN GetAttr(st, MatchedKey(val.s)) ELSE val
    ELSE val

\* mutant: the settings-reference step as an "elif" of the override
ResolveLeaf_Elif(st, env, key_tup, val) ==
    IF Truthy(EnvGet(env, EnvVarName(st, key_tup)))
    THEN EnvGet(env, EnvVarName(st, key_tup))
    ELSE Interpolate(st, val)

\* one iteration of the loop over flat_config.items()
ResolveLeaf(st, env, key_tup, val) ==
    Interpolate(st, EnvOverride(val, EnvGet(env, EnvVarName(st, key_tup))))

\* the loop: every leaf of the flattened mapping is reassigned in place
ResolveAll(st, env, flat_config) ==
    [key_tup \in DOMAIN flat_config |-> ResolveLeaf(st, env, key_tup, flat_config[key_tup])]

(***************************************************************************)
(* The flattened configuration.  yaml.safe_load followed by                *)
(* dict_to_flatdict gives a mapping from key tuples to leaves; the model   *)
(* holds a configuration in that form throughout.  flatdict_to_dict is its *)
(* inverse: the nested value under a top-level key is determined by the    *)
(* leaves whose tuple starts with that key.                                *)
(***************************************************************************)
\* config.keys() of the nested mapping
TopKeys(flat) == {key_tup[1] : key_tup \in DOMAIN flat}

\* config[key] of the nested mapping
TopValue(flat, key) ==
    [key_tup \in {k \in DOMAIN flat : k[1] = key} |-> flat[key_tup]]

\* what a path holds
Missing == [kind |-> "missing", flat |-> << >>]

Garbage == [kind |-> "garbage", flat |-> << >>]

Mapping(flat) == [kind |-> "mapping", flat |-> flat]

\* all mappings from at most max of the keys to the values
Mappings(keys, vals, max) ==
    UNION {[S -> vals] : S \in {T \in SUBSET keys : Cardinality(T) <= max}}

\* PROCESS_LOGGING_CONFIG: dict = None
NoConfig == [none |-> TRUE, dict |-> << >>]

Dict(flat) == [none |-> FALSE, dict |-> flat]

\* "if PROCESS_LOGGING_CONFIG:" is the truth value of the object: None and
\* the empty dict are both false
Configured(p) == ~p.none /\ DOMAIN p.dict # {}

(***************************************************************************)
(* load_logging_config(path, settings)                                     *)
(***************************************************************************)
NoWarning == [emitted |-> FALSE, keys |-> {}]

Raised(error, path) ==
    [outcome |-> error, path |-> path, config |-> << >>, warning |-> NoWarning]

Loaded(path, config) ==
    [outcome |-> "loaded", path |-> path, config |-> config, warning |-> NoWarning]

load_logging_config(files, path, env, st) ==
    CASE files[path].kind = "missing" -> Raised("FileNotFoundError", path)
      [] files[path].kind = "garbage" -> Raised("YAMLError", path)
      [] OTHER -> Loaded(path, ResolveAll(st, env, files[path].flat))

(***************************************************************************)
(* Inputs of the load_logging_config specification.                        *)
(***************************************************************************)
V == <<"v">>

H == <<"h">>

X == <<"x">>

Y == <<"y">>

HdotX == <<"h", ".", "x">>

\* key tuples; <<H, X>> and <<HdotX>> derive the same variable name
Paths == {<<V>>, <<H, X>>, <<H, Y>>, <<HdotX>>}

RefL == <<"{", "{", "l", "}", "}">>

RefM == <<"{", "{", "m", "}", "}">>

FileVals ==
    {IntOne, None, Str(<<"l">>), Str(RefL), Str(RefM),
     Str(<<"{", "{", "l">>), Str(RefL \o <<"LF">>)}

EnvNames == {<<"P", "_", "V">>, <<"P", "_", "H", "_", "X">>, <<"P", "_", "H", "_", "Y">>}

EnvVals == {<< >>, <<"a">>, RefL, RefM, RefL \o <<"LF">>, <<"{", "{", "l">>}

Files == {Missing, Garbage} \cup {Mapping(f) : f \in Mappings(Paths, FileVals, MaxLeaves)}

Environs == Mappings(EnvNames, EnvVals, MaxEnv)

\* a LoggingSettings: Config.env_prefix, the attributes getattr can find,
\* and get_extra_loggers()
Settings(extra) ==
    [env_prefix |-> <<"p", "_">>,
     attrs |-> [n \in {<<"l">>} |-> Str(<<"a", "a">>)],
     extra_loggers |-> extra]

NOTSET == 0

DEBUG == 10

INFO == 20

Logger(handlers, level, propagate) ==
    [handlers |-> handlers, level |-> level, propagate |-> propagate]

\* the registry before logging is configured
Registry0(level) ==
    [n \in {"prefect.extra", "vendor.lib"} |->
        IF n = "vendor.lib" THEN Logger(<< >>, level, TRUE) ELSE Logger(<< >>, NOTSET, TRUE)]

\* history: calls made, the calls that performed dictConfig, the configuration
\* of the first dictConfig that returned normally, whether every call so far
\* returned normally, and the registry as it was before the last such apply
Hist0 ==
    [calls |-> 0, applied |-> {}, first |-> NoConfig, normal |-> TRUE,
     before |-> Registry0(NOTSET)]

Ret0 == Raised("none", "none")

Threads == {1, 2}

InitLoad ==
    /\ \E user \in Files : fs = [user |-> user, default |-> Missing]
    /\ environ \in Environs
    /\ settings = Settings(<< >>)
    /\ PROCESS_LOGGING_CONFIG = NoConfig
    /\ registry = Registry0(NOTSET)
    /\ ret = Ret0
    /\ hist = Hist0
    /\ pc = [t \in Threads |-> "idle"]
    /\ local = [t \in Threads |-> Ret0]

\* one call load_logging_config(settings.settings_path, settings)
LoadLoggingConfig ==
    /\ ret.outcome = "none"
    /\ ret' = load_logging_config(fs, "user", environ, settings)
    /\ UNCHANGED <<fs, environ, settings, PROCESS_LOGGING_CONFIG, registry, hist, pc, local>>

NextLoad == LoadLoggingConfig

SpecLoad == InitLoad /\ [][NextLoad]_vars

(***************************************************************************)
(* Properties of load_logging_config, stated without the operators above:  *)
(* the variable names are tabulated and the reference forms written out.   *)
(***************************************************************************)
DerivedName(key_tup) ==
    CASE key_tup = <<V>> -> <<"P", "_", "V">>
      [] key_tup = <<H, Y>> -> <<"P", "_", "H", "_", "Y">>
      [] OTHER -> <<"P", "_", "H", "_", "X">>

\* the environment variable of the leaf is set and non-empty
Overridden(key_tup) ==
    DerivedName(key_tup) \in DOMAIN environ /\ environ[DerivedName(key_tup)] # << >>

EnvString(key_tup) == Str(environ[DerivedName(key_tup)])

Idents == {<<"l">>, <<"m">>}

Attribute(id) == IF id \in DOMAIN settings.attrs THEN settings.attrs[id] ELSE None

\* a value that is exactly {{IDENTIFIER}} resolves to the attribute, any
\* other value to itself
ExactReference(val) ==
    IF val.t = "str" /\ \E id \in Idents : val.s = <<"{", "{">> \o id \o <<"}", "}">>
    THEN Attribute(CHOOSE id \in Idents : val.s = <<"{", "{">> \o id \o <<"}", "}">>)
    ELSE val

\* the same, with the form also accepted when one newline follows it
PatternReference(val) ==
    IF val.t = "str" /\ val.s # << >> /\ val.s[Len(val.s)] = "LF"
       /\ ExactReference(Str(SubSeq(val.s, 1, Len(val.s) - 1)))
            # Str(SubSeq(val.s, 1, Len(val.s) - 1))
    THEN ExactReference(Str(SubSeq(val.s, 1, Len(val.s) - 1)))
    ELSE ExactReference(val)

LoadedFile == fs.user.flat

\* C2 as stated: a leaf replaced by an environment value equals the
\* environment string verbatim, whatever that string looks like.
C2_EnvVerbatim ==
    ret.outcome = "loaded" =>
        \A k \in DOMAIN LoadedFile : Overridden(k) => ret.config[k] = EnvString(k)

\* C2 as amended: a leaf replaced by an environment value goes through the same
\* settings-reference step as a file value: an environment string the pattern
\* matches yields the settings attribute (None when absent), any other
\* environment string is kept verbatim.
C2_EnvInterpolated ==
    ret.outcome = "loaded" =>
        \A k \in DOMAIN LoadedFile :
            Overridden(k) => ret.config[k] = PatternReference(EnvString(k))

\* an overridden leaf whose environment value {{l}} came out as the attribute
C2_Witness ==
    /\ ret.outcome = "loaded"
    /\ \E k \in DOMAIN LoadedFile :
          /\ Overridden(k)
          /\ EnvString(k) = Str(RefL)
          /\ ret.config[k] = Str(<<"a", "a">>)

\* C3 as stated: the environment value replaces the leaf iff the variable is
\* set and non-empty, the result then being the environment string itself;
\* otherwise the file value is kept (up to settings-reference resolution).
C3_ReplacedVerbatim ==
    ret.outcome = "loaded" =>
        \A k \in DOMAIN LoadedFile :
            ret.config[k] =
                IF Overridden(k) THEN EnvString(k) ELSE PatternReference(LoadedFile[k])

\* C3 as amended: the environment value replaces the leaf iff the variable is
\* set and non-empty, with no type coercion; the value in hand (environment
\* string or file value) then goes through settings-reference resolution, so
\* the result is the environment string unless the pattern matches it.
C3_ReplacedThenResolved ==
    ret.outcome = "loaded" =>
        \A k \in DOMAIN LoadedFile :
            ret.config[k] =
                PatternReference(IF Overridden(k) THEN EnvString(k) ELSE LoadedFile[k])

\* an int leaf replaced by the string "a"
C3_Witness ==
    /\ ret.outcome = "loaded"
    /\ \E k \in DOMAIN LoadedFile :
          /\ LoadedFile[k] = IntOne
          /\ Overridden(k)
          /\ EnvString(k) = Str(<<"a">>)
          /\ ret.config[k] = Str(<<"a">>)

\* C4: a leaf not overridden that is exactly {{IDENTIFIER}} becomes the
\* settings attribute (None when absent); every other value is unchanged.
C4_FileReference ==
    ret.outcome = "loaded" =>
        \A k \in DOMAIN LoadedFile :
            ~Overridden(k) => ret.config[k] = ExactReference(LoadedFile[k])

(***************************************************************************)
(* setup_logging(settings)                                                 *)
(***************************************************************************)
\* mutant: the configured path is read whether or not it exists
ChosenPath_NoFallback(files) == "user"

\* settings.settings_path if settings.settings_path.exists() else
\* DEFAULT_LOGGING_SETTINGS_PATH
ChosenPath(files) == IF files.user.kind # "missing" THEN "user" ELSE "default"

\* the keys the comprehension looks up in PROCESS_LOGGING_CONFIG and does
\* not find there
AbsentKeys(stored, config) == TopKeys(config) \ TopKeys(stored)

\* config_diff, when every lookup succeeds
ConfigDiff(stored, config) ==
    {key \in TopKeys(config) : TopValue(stored, key) # TopValue(config, key)}

\* the branch taken when PROCESS_LOGGING_CONFIG is true
Repeated(stored, loaded) ==
    IF AbsentKeys(stored, loaded.config) # {}
    THEN [loaded EXCEPT !.outcome = "KeyError"]
    ELSE [loaded EXCEPT
            !.outcome = "returned",
            !.warning = [emitted |-> ConfigDiff(stored, loaded.config) # {},
                         keys |-> ConfigDiff(stored, loaded.config)]]

\* Logger.addHandler: a handler already attached is not attached again
AddHandler(logger, handler) ==
    IF \E i \in 1..Len(logger.handlers) : logger.handlers[i] = handler
    THEN logger
    ELSE [logger EXCEPT !.handlers = Append(@, handler)]

\* the body of "for handler in extra_config.handlers"
CopyHandler(logger, extra_config, handler) ==
    LET added == AddHandler(logger, handler)
        levelled == IF added.level = NOTSET
                    THEN [added EXCEPT !.level = extra_config.level]
                    ELSE added
    IN [levelled EXCEPT !.propagate = extra_config.propagate]

\* for handler in extra_config.handlers
RECURSIVE CopyHandlers(_, _, _)
CopyHandlers(logger, extra_config, handlers) ==
    IF handlers = << >> THEN logger
    ELSE CopyHandlers(CopyHandler(logger, extra_config, Head(handlers)),
                      extra_config, Tail(handlers))

\* for logger_name in settings.get_extra_loggers()
RECURSIVE CopyExtra(_, _)
CopyExtra(reg, names) ==
    IF names = << >> THEN reg
    ELSE CopyExtra(
            [reg EXCEPT ![Head(names)] =
                CopyHandlers(@, reg["prefect.extra"], reg["prefect.extra"].handlers)],
            Tail(names))

\* logging.config.dictConfig(config) returning normally: the 'prefect.extra'
\* logger is whatever the configuration describes
DictConfig(reg, extra_config) == [reg EXCEPT !["prefect.extra"] = extra_config]

\* mutant: the store as a compare-and-set, a later store does not overwrite
Stored_IfUnset(current, config) == IF current.none THEN Dict(config) ELSE current

\* PROCESS_LOGGING_CONFIG = config
Stored(current, config) == Dict(config)

\* what a configuration may make of 'prefect.extra'
ExtraConfigs ==
    {Logger([i \in 1..n |-> i], level, propagate) :
        n \in 0..MaxHandlers, level \in {DEBUG}, propagate \in BOOLEAN}

SetupPaths == {<<V>>, <<H, X>>, <<H, Y>>}

SetupVals == {IntOne, Str(<<"a">>)}

DefaultFile == (<<V>> :> IntOne) @@ (<<H, X>> :> Str(RefL))

SetupFileSystems ==
    {[user |-> u, default |-> d] :
        u \in {Missing, Garbage} \cup
              {Mapping(f) : f \in Mappings(SetupPaths, SetupVals, MaxSetupLeaves)},
        d \in {Missing, Mapping(DefaultFile)}}

Init ==
    /\ fs = [user |-> Missing, default |-> Mapping(DefaultFile)]
    /\ environ = (<<"P", "_", "H", "_", "Y">> :> <<"a">>)
    /\ settings = Settings(<<"vendor.lib">>)
    /\ PROCESS_LOGGING_CONFIG = NoConfig
    /\ registry \in {Registry0(NOTSET), Registry0(INFO)}
    /\ ret = Ret0
    /\ hist = [Hist0 EXCEPT !.before = registry]
    /\ pc = [t \in Threads |-> "idle"]
    /\ local = [t \in Threads |-> Ret0]

Called(normal) ==
    [hist EXCEPT !.calls = @ + 1, !.normal = @ /\ normal]

\* lines 68-75: the call's local variable config, or the error raised
LoadFor(files) == load_logging_config(files, ChosenPath(files), environ, settings)

\* every call: the files it finds are its input, the call bound keeps the
\* model finite
Calling(files) ==
    /\ hist.calls < MaxCalls
    /\ fs' = files
    /\ UNCHANGED <<environ, settings, pc, local>>

\* load_logging_config raises: nothing after line 75 runs
SetupLoadRaises(files) ==
    /\ Calling(files)
    /\ LoadFor(files).outcome # "loaded"
    /\ ret' = LoadFor(files)
    /\ hist' = Called(FALSE)
    /\ UNCHANGED <<PROCESS_LOGGING_CONFIG, registry>>

\* lines 77-90
SetupRepeated(files) ==
    /\ Calling(files)
    /\ LoadFor(files).outcome = "loaded"
    /\ Configured(PROCESS_LOGGING_CONFIG)
    /\ ret' = Repeated(PROCESS_LOGGING_CONFIG.dict, LoadFor(files))
    /\ hist' = Called(ret'.outcome = "returned")
    /\ UNCHANGED <<PROCESS_LOGGING_CONFIG, registry>>

\* lines 92-105
SetupApplies(files) ==
    /\ Calling(files)
    /\ LoadFor(files).outcome = "loaded"
    /\ ~Configured(PROCESS_LOGGING_CONFIG)
    /\ \E extra_config \in ExtraConfigs :
          registry' = CopyExtra(DictConfig(registry, extra_config),
                                settings.extra_loggers)
    /\ PROCESS_LOGGING_CONFIG' = Stored(PROCESS_LOGGING_CONFIG, LoadFor(files).config)
    /\ ret' = [LoadFor(files) EXCEPT !.outcome = "returned"]
    /\ hist' = [Called(TRUE) EXCEPT
                  !.applied = @ \cup {hist.calls + 1},
                  !.first = IF @.none THEN Dict(LoadFor(files).config) ELSE @,
                  !.before = registry]

\* line 92 raises: the logging subsystem rejects the configuration.  Which
\* configurations it accepts is its own affair (the standard library's wants
\* a "version" key; a substituted one may accept anything): both outcomes are
\* open for every configuration
SetupApplyRaises(files) ==
    /\ Calling(files)
    /\ LoadFor(files).outcome = "loaded"
    /\ ~Configured(PROCESS_LOGGING_CONFIG)
    /\ ret' = [LoadFor(files) EXCEPT !.outcome = "ValueError"]
    /\ hist' = [Called(FALSE) EXCEPT !.applied = @ \cup {hist.calls + 1}]
    /\ UNCHANGED <<PROCESS_LOGGING_CONFIG, registry>>

\* one call of setup_logging, by the path it takes through the function
Next ==
    \E files \in SetupFileSystems :
        \/ SetupLoadRaises(files)
        \/ SetupRepeated(files)
        \/ SetupApplies(files)
        \/ SetupApplyRaises(files)

Spec == Init /\ [][Next]_vars

(***************************************************************************)
(* Properties of sequential setup_logging calls.                           *)
(***************************************************************************)
LoadErrors == {"FileNotFoundError", "YAMLError"}

\* a step that is one setup_logging call
IsCall == hist'.calls = hist.calls + 1

C5_RepeatNeverRaises ==
    [][(IsCall /\ Configured(PROCESS_LOGGING_CONFIG) /\ ret'.outcome \notin LoadErrors)
          => ret'.outcome = "returned"]_vars

\* the top-level keys of the new configuration whose value differs from the
\* stored one, a key the stored configuration lacks included (the reading that
\* asks least: keys only the stored configuration has are not counted)
Differing(stored, config) ==
    {key \in TopKeys(config) : TopValue(stored, key) # TopValue(config, key)}

\* C6: on a call made when the state already holds a configuration, a warning
\* is emitted iff some top-level key differs, and it reports exactly the
\* differing keys.
C6_WarnsExactlyDiffering ==
    [][(IsCall /\ Configured(PROCESS_LOGGING_CONFIG) /\ ret'.outcome \notin LoadErrors)
          => ret'.warning =
                [emitted |-> Differing(PROCESS_LOGGING_CONFIG.dict, ret'.config) # {},
                 keys |-> Differing(PROCESS_LOGGING_CONFIG.dict, ret'.config)]]_vars

\* C7: after the first call, every extra logger has the handlers and the
\* propagation flag of 'prefect.extra', and its level when it had none.
C7_ExtraLoggersCopied ==
    (hist.calls = 1 /\ ret.outcome = "returned") =>
        \A i \in DOMAIN settings.extra_loggers :
            LET logger == registry[settings.extra_loggers[i]]
                was == hist.before[settings.extra_loggers[i]]
                extra_config == registry["prefect.extra"]
            IN /\ \A h \in DOMAIN extra_config.handlers :
                    \E j \in DOMAIN logger.handlers :
                        logger.handlers[j] = extra_config.handlers[h]
               /\ logger.propagate = extra_config.propagate
               /\ logger.level =
                    IF was.level = NOTSET THEN extra_config.level ELSE was.level

C9_PathAndLoadErrors ==
    [][IsCall =>
          /\ ret'.path = IF fs'.user.kind = "missing" THEN "default" ELSE "user"
          /\ fs'[ret'.path].kind = "mapping" =>
                /\ ret'.outcome \notin LoadErrors
                /\ DOMAIN ret'.config = DOMAIN fs'[ret'.path].flat
          /\ fs'[ret'.path].kind # "mapping" =>
                /\ ret'.outcome =
                      IF fs'[ret'.path].kind = "missing"
                      THEN "FileNotFoundError" ELSE "YAMLError"
                /\ PROCESS_LOGGING_CONFIG' = PROCESS_LOGGING_CONFIG
                /\ registry' = registry
                /\ hist'.applied = hist.applied]_vars

\* a second call found neither file, after a first call that applied
C9_Witness ==
    /\ hist.calls = 2
    /\ ret.outcome = "FileNotFoundError"
    /\ ret.path = "default"
    /\ hist.applied = {1}
    /\ Configured(PROCESS_LOGGING_CONFIG)

(***************************************************************************)
(* Two threads, each calling setup_logging once.  The function holds no    *)
(* lock, so a thread switch may fall between any two of its statements:    *)
(* the load (68-75), the test of the global (77-90), dictConfig (92), the  *)
(* copy to the extra loggers (95-103) and the store (105).                 *)
(***************************************************************************)
ThreadHist0 == [applied |-> {}, copied |-> {}, stored |-> << >>]

InitThreads ==
    /\ fs = [user |-> Missing, default |-> Mapping(DefaultFile)]
    /\ environ = << >>
    /\ settings = Settings(<<"vendor.lib">>)
    /\ PROCESS_LOGGING_CONFIG = NoConfig
    /\ registry = Registry0(NOTSET)
    /\ ret = Ret0
    /\ hist = ThreadHist0
    /\ pc = [t \in Threads |-> "load"]
    /\ local = [t \in Threads |-> Ret0]

\* lines 68-75
TLoad(t, files) ==
    /\ pc[t] = "load"
    /\ fs' = files
    /\ local' = [local EXCEPT
                   ![t] = load_logging_config(files, ChosenPath(files), environ, settings)]
    /\ pc' = [pc EXCEPT ![t] = IF local'[t].outcome = "loaded" THEN "check" ELSE "done"]
    /\ UNCHANGED <<environ, settings, PROCESS_LOGGING_CONFIG, registry, ret, hist>>

\* lines 77-90: the global is true
TCheckRepeated(t) ==
    /\ pc[t] = "check"
    /\ Configured(PROCESS_LOGGING_CONFIG)
    /\ local' = [local EXCEPT ![t] = Repeated(PROCESS_LOGGING_CONFIG.dict, local[t])]
    /\ pc' = [pc EXCEPT ![t] = "done"]
    /\ UNCHANGED <<fs, environ, settings, PROCESS_LOGGING_CONFIG, registry, ret, hist>>

\* line 77: the global is false, the thread goes on to line 92
TCheckPassed(t) ==
    /\ pc[t] = "check"
    /\ ~Configured(PROCESS_LOGGING_CONFIG)
    /\ pc' = [pc EXCEPT ![t] = "apply"]
    /\ UNCHANGED <<fs, environ, settings, PROCESS_LOGGING_CONFIG, registry, ret, hist, local>>

\* line 92 returns normally
TApply(t) ==
    /\ pc[t] = "apply"
    /\ \E extra_config \in ExtraConfigs : registry' = DictConfig(registry, extra_config)
    /\ hist' = [hist EXCEPT !.applied = @ \cup {t}]
    /\ pc' = [pc EXCEPT ![t] = "copy"]
    /\ UNCHANGED <<fs, environ, settings, PROCESS_LOGGING_CONFIG, ret, local>>

\* line 92 raises
TApplyRaises(t) ==
    /\ pc[t] = "apply"
    /\ hist' = [hist EXCEPT !.applied = @ \cup {t}]
    /\ local' = [local EXCEPT ![t].outcome = "ValueError"]
    /\ pc' = [pc EXCEPT ![t] = "done"]
    /\ UNCHANGED <<fs, environ, settings, PROCESS_LOGGING_CONFIG, registry, ret>>

\* lines 95-103
TCopy(t) ==
    /\ pc[t] = "copy"
    /\ registry' = CopyExtra(registry, settings.extra_loggers)
    /\ hist' = [hist EXCEPT !.copied = @ \cup {t}]
    /\ pc' = [pc EXCEPT ![t] = "store"]
    /\ UNCHANGED <<fs, environ, settings, PROCESS_LOGGING_CONFIG, ret, local>>

\* line 105
TStore(t) ==
    /\ pc[t] = "store"
    /\ PROCESS_LOGGING_CONFIG' = Stored(PROCESS_LOGGING_CONFIG, local[t].config)
    /\ hist' = [hist EXCEPT !.stored = Append(@, t)]
    /\ local' = [local EXCEPT ![t].outcome = "returned"]
    /\ pc' = [pc EXCEPT ![t] = "done"]
    /\ UNCHANGED <<fs, environ, settings, registry, ret>>

NextThreads ==
    \E t \in Threads :
        \/ \E files \in SetupFileSystems : TLoad(t, files)
        \/ TCheckRepeated(t)
        \/ TCheckPassed(t)
        \/ TApply(t)
        \/ TApplyRaises(t)
        \/ TCopy(t)
        \/ TStore(t)

SpecThreads == InitThreads /\ [][NextThreads]_vars

\* C10: the test of the global and the store are not atomic.  Every thread
\* that has passed the test performs dictConfig, the copy and the store
\* whatever the other thread has done meanwhile, and the global always holds
\* the configuration of the last thread to store.
C10_CheckThenStoreNotAtomic ==
    /\ \A t \in Threads :
          /\ pc[t] \in {"copy", "store"} => t \in hist.applied
          /\ pc[t] = "store" => t \in hist.copied
    /\ hist.stored = << >> => PROCESS_LOGGING_CONFIG = NoConfig
    /\ hist.stored # << >> =>
          PROCESS_LOGGING_CONFIG = Dict(local[hist.stored[Len(hist.stored)]].config)

\* both threads passed the test, both applied and copied, and the second
\* store replaced the different configuration the first had stored
C10_Witness ==
    /\ \A t \in Threads : pc[t] = "done"
    /\ hist.applied = Threads
    /\ hist.copied = Threads
    /\ Len(hist.stored) = 2
    /\ Configured(Dict(local[hist.stored[1]].config))
    /\ local[hist.stored[1]].config # local[hist.stored[2]].config
    /\ PROCESS_LOGGING_CONFIG = Dict(local[hist.stored[2]].config)
    /\ Len(registry["vendor.lib"].handlers) > 0

====
